---- MODULE Spec2Model ----
(***************************************************************************)
(* A model of log_analyzer.py: the latest-log locator (get_latest_log),    *)
(* the line generator (get_url_time_from_record) and the pipeline of       *)
(* main(): locate, report-exists check, aggregation, quality gate,         *)
(* ranking, table building, first-row read and report writing.             *)
(*                                                                         *)
(* Units.  Times are integers in milliseconds (the log format carries      *)
(* exactly three fractional digits, \d+\.\d{3}).  Shares and the           *)
(* ACCEPTABLE_PARSED_SHARE threshold are integers in thousandths, which is *)
(* what round(x, 3) produces.  round() meets an exact half only through    *)
(* the binary double that carries the value, so its direction there is     *)
(* not a function of the decimal value (round(0.0625, 3) = 0.062,          *)
(* round(0.0025, 3) = 0.003): RoundHalf takes the direction as a           *)
(* parameter and the actions choose it nondeterministically.               *)
(***************************************************************************)
EXTENDS Integers, Sequences, FiniteSets, TLC

VARIABLES
    pc,                   \* position in main() or "idle" (direct calls of get_latest_log)
    status,               \* "running", "finished", "SystemExit0" or the uncaught exception
    files,                \* os.listdir(LOG_DIR): a sequence of file names, in listing order
    reports,              \* dates whose report-YYYY.MM.DD.html exists in REPORT_DIR
    report_written,       \* "no", "created" or "overwritten": what open(report_file, 'w') did
    working_config,       \* REPORT_SIZE and ACCEPTABLE_PARSED_SHARE
    log_file,             \* the value returned by get_latest_log
    url_times,            \* defaultdict(list), as a sequence of [url, times] in insertion order
    record_count,         \* lines the generator has streamed
    record_processed,     \* lines the generator matched against the url pattern
    records_processed,    \* main(): sum(map(len, url_times.values())) before the sentinel is deleted
    records_parsed,       \* main(): the same sum after the sentinel is deleted
    records_parsed_share, \* main(): round(records_parsed / records_processed, 3), in thousandths
    top_url_times,        \* the OrderedDict of the REPORT_SIZE slowest urls
    table                 \* the list of report rows

vars == <<pc, status, files, reports, report_written, working_config, log_file,
          url_times, record_count, record_processed, records_processed,
          records_parsed, records_parsed_share, top_url_times, table>>

\* ------------------------------------------------------------------ bounds

MaxFiles == 2
MaxLines == 3

\* ------------------------------------------------------------ file names

\* A file name is <stem>.log-<tok><ext>: tok is the run of digits after ".log-".
Stems == {"nginx-access-ui", "access-ui"}
Exts == {"", ".gz", ".bz2"}
Tok19700101 == <<1, 9, 7, 0, 0, 1, 0, 1>>
Tok20170630 == <<2, 0, 1, 7, 0, 6, 3, 0>>
Tok20220112 == <<2, 0, 2, 2, 0, 1, 1, 2>>
Tok2017063 == <<2, 0, 1, 7, 0, 6, 3>>
Tok20170230 == <<2, 0, 1, 7, 0, 2, 3, 0>>
Toks == {Tok19700101, Tok20170630, Tok20220112, Tok2017063, Tok20170230}
FileNames == [stem : Stems, tok : Toks, ext : Exts]

\* latest_file = ''
NoFile == [stem |-> "", tok |-> <<>>, ext |-> ""]
\* datetime(1970, 1, 1).date()
Epoch == [year |-> 1970, month |-> 1, day |-> 1]

\* a pattern that lost its anchors: any stem, any suffix
FileMatchesAnyStem(file) == Len(file.tok) = 8 /\ file.ext \in {"", ".gz", ".bz2"}
\* file_name_pattern.search(file) for ^nginx-access-ui\.log-(?P<date>\d{8})($|\.gz$)
FileMatches(file) ==
    /\ file.stem = "nginx-access-ui"
    /\ Len(file.tok) = 8
    /\ file.ext \in {"", ".gz"}

IsLeap(y) == (y % 4 = 0 /\ y % 100 # 0) \/ y % 400 = 0
DaysIn(y, m) ==
    IF m = 2 THEN (IF IsLeap(y) THEN 29 ELSE 28)
    ELSE IF m \in {4, 6, 9, 11} THEN 30 ELSE 31

\* datetime.strptime(tok, '%Y%m%d').date() on eight digits: %Y takes four, %m and %d two each
ParseDate(tok) ==
    [year |-> tok[1] * 1000 + tok[2] * 100 + tok[3] * 10 + tok[4],
     month |-> tok[5] * 10 + tok[6],
     day |-> tok[7] * 10 + tok[8]]
\* strptime raises ValueError unless the fields name a calendar day
DateValid(tok) ==
    LET d == ParseDate(tok) IN
    /\ d.year >= 1
    /\ d.month \in 1..12
    /\ d.day >= 1
    /\ d.day <= DaysIn(d.year, d.month)

\* date > latest_date
DateGT(a, b) ==
    \/ a.year > b.year
    \/ a.year = b.year /\ a.month > b.month
    \/ a.year = b.year /\ a.month = b.month /\ a.day > b.day

NotCalled == [kind |-> "NotCalled", file_path |-> NoFile, date |-> Epoch]
ResultNone == [kind |-> "None", file_path |-> NoFile, date |-> Epoch]
ResultValueError == [kind |-> "ValueError", file_path |-> NoFile, date |-> Epoch]

\* the loop of get_latest_log from listing position i on
RECURSIVE ScanFiles(_, _, _, _)
ScanFiles(listing, i, latest_file, latest_date) ==
    IF i > Len(listing)
    THEN IF latest_file # NoFile
         THEN [kind |-> "LogFile", file_path |-> latest_file, date |-> latest_date]
         ELSE ResultNone
    ELSE LET file == listing[i] IN
         IF FileMatches(file)
         THEN IF ~DateValid(file.tok)
              THEN ResultValueError
              ELSE LET date == ParseDate(file.tok) IN
                   IF DateGT(date, latest_date)
                   THEN ScanFiles(listing, i + 1, file, date)
                   ELSE ScanFiles(listing, i + 1, latest_file, latest_date)
         ELSE ScanFiles(listing, i + 1, latest_file, latest_date)

get_latest_log(listing) == ScanFiles(listing, 1, NoFile, Epoch)

\* ------------------------------------------------------------ log lines

\* What the url pattern sees in a line: whether it matches and, if so, the two
\* named groups.  DashLine is a request line such as "GET - HTTP/1.1" ... 0.001,
\* which matches with the url "-".
Urls == {"/a", "/b", "/c"}
Times == {0, 1, 2}
UnmatchedLine == [matched |-> FALSE, url |-> "", time |-> 0]
DashLine == [matched |-> TRUE, url |-> "-", time |-> 1]
Lines == {UnmatchedLine, DashLine} \cup [matched : {TRUE}, url : Urls, time : Times]

\* one iteration of the generator's loop: the (url, time) pair it yields
ExtractRecord(line) ==
    IF line.matched THEN [url |-> line.url, time |-> line.time]
    ELSE [url |-> "-", time |-> 0]

HasKey(ut, url) == \E i \in 1..Len(ut) : ut[i].url = url
KeyIndex(ut, url) == CHOOSE i \in 1..Len(ut) : ut[i].url = url
\* ut[url] as a defaultdict(list) reads it
TimesOf(ut, url) == IF HasKey(ut, url) THEN ut[KeyIndex(ut, url)].times ELSE <<>>
\* url_times[url].append(time): a new key goes last, an old key keeps its place
AppendTime(ut, url, time) ==
    IF HasKey(ut, url)
    THEN [ut EXCEPT ![KeyIndex(ut, url)].times = Append(@, time)]
    ELSE Append(ut, [url |-> url, times |-> <<time>>])

NotSentinel(e) == e.url # "-"
\* if '-' in url_times: del url_times['-']
DeleteSentinel(ut) == SelectSeq(ut, NotSentinel)

RECURSIVE SumSeq(_)
SumSeq(s) == IF s = <<>> THEN 0 ELSE s[1] + SumSeq(Tail(s))

\* sum(map(len, d.values()))
RECURSIVE SumOfLens(_)
SumOfLens(ut) == IF ut = <<>> THEN 0 ELSE Len(ut[1].times) + SumOfLens(Tail(ut))
\* sum(map(sum, d.values()))
RECURSIVE SumOfSums(_)
SumOfSums(ut) == IF ut = <<>> THEN 0 ELSE SumSeq(ut[1].times) + SumOfSums(Tail(ut))

\* ------------------------------------------------------------ arithmetic

\* truncation in place of rounding
RoundDown(num, den, up) == num \div den
\* round(num / den) for num >= 0, den > 0; `up` is the direction at an exact half
RoundHalf(num, den, up) ==
    LET q == num \div den
        r == num % den
    IN  IF 2 * r < den THEN q
        ELSE IF 2 * r > den THEN q + 1
        ELSE IF up THEN q + 1 ELSE q

Min(a, b) == IF a <= b THEN a ELSE b

\* max(v)
RECURSIVE MaxSeq(_)
MaxSeq(s) == IF Len(s) = 1 THEN s[1]
             ELSE LET m == MaxSeq(Tail(s)) IN IF s[1] >= m THEN s[1] ELSE m

\* sorted(v), ascending
RECURSIVE InsertAsc(_, _)
InsertAsc(s, x) ==
    IF s = <<>> THEN <<x>>
    ELSE IF s[1] <= x THEN <<s[1]>> \o InsertAsc(Tail(s), x)
    ELSE <<x>> \o s
RECURSIVE SortAsc(_)
SortAsc(s) == IF s = <<>> THEN <<>> ELSE InsertAsc(SortAsc(SubSeq(s, 1, Len(s) - 1)), s[Len(s)])

\* the upper middle element alone, for every n
MedianUpper2(v) == 2 * SortAsc(v)[Len(v) \div 2 + 1]
\* statistics.median(v), doubled so that it stays an integer:
\* data[n // 2] for odd n, (data[i - 1] + data[i]) / 2 for even n
Median2(v) ==
    LET data == SortAsc(v)
        n == Len(v)
        i == n \div 2
    IN  IF n % 2 = 1 THEN 2 * data[i + 1] ELSE data[i] + data[i + 1]

\* sorted(items, key=lambda x: -sum(x[1])): stable, so an item goes after every
\* item whose key is not greater than its own
RECURSIVE InsertByKey(_, _)
InsertByKey(s, x) ==
    IF s = <<>> THEN <<x>>
    ELSE IF -SumSeq(s[1].times) <= -SumSeq(x.times) THEN <<s[1]>> \o InsertByKey(Tail(s), x)
    ELSE <<x>> \o s
\* a sort that puts an item before the items of equal key
RECURSIVE InsertByKeyUnstable(_, _)
InsertByKeyUnstable(s, x) ==
    IF s = <<>> THEN <<x>>
    ELSE IF -SumSeq(s[1].times) < -SumSeq(x.times) THEN <<s[1]>> \o InsertByKeyUnstable(Tail(s), x)
    ELSE <<x>> \o s
RECURSIVE SortedUnstable(_)
SortedUnstable(ut) ==
    IF ut = <<>> THEN <<>>
    ELSE InsertByKeyUnstable(SortedUnstable(SubSeq(ut, 1, Len(ut) - 1)), ut[Len(ut)])
RECURSIVE SortedByTimeSum(_)
SortedByTimeSum(ut) ==
    IF ut = <<>> THEN <<>>
    ELSE InsertByKey(SortedByTimeSum(SubSeq(ut, 1, Len(ut) - 1)), ut[Len(ut)])

\* OrderedDict(sorted(...)[:REPORT_SIZE]) for REPORT_SIZE >= 0
CropTop(ut, size) == SubSeq(SortedByTimeSum(ut), 1, Min(size, Len(ut)))

\* one dict of the table; up gives the direction of each round() at an exact half
TableRow(e, times_sum, times_count, up) ==
    [url |-> e.url,
     count |-> Len(e.times),
     time_avg |-> RoundHalf(SumSeq(e.times), Len(e.times), up.avg),
     time_max |-> MaxSeq(e.times),
     time_sum |-> RoundHalf(SumSeq(e.times), 1, up.sum),
     time_med |-> RoundHalf(Median2(e.times), 2, up.med),
     time_perc |-> RoundHalf(1000 * SumSeq(e.times), times_sum, up.time_perc),
     count_perc |-> RoundHalf(1000 * Len(e.times), times_count, up.count_perc)]

HalfDirections == [avg : BOOLEAN, sum : {FALSE}, med : BOOLEAN,
                   time_perc : BOOLEAN, count_perc : BOOLEAN]

\* the rows one entry can produce, over the directions of its exact halves
RowChoices(e, times_sum, times_count) ==
    {TableRow(e, times_sum, times_count, up) : up \in HalfDirections}

\* the tables `for k, v in top_url_times.items(): table.append(...)` can build
RECURSIVE Tables(_, _, _)
Tables(top, times_sum, times_count) ==
    IF top = <<>> THEN {<<>>}
    ELSE LET front == SubSeq(top, 1, Len(top) - 1) IN
         {Append(t, r) : t \in Tables(front, times_sum, times_count),
                         r \in RowChoices(top[Len(top)], times_sum, times_count)}

\* ------------------------------------------------------------ configuration

\* the module-level config dict
config == [REPORT_SIZE |-> 1000, ACCEPTABLE_PARSED_SHARE |-> 333]
\* what a config file may set: a positive REPORT_SIZE, a share in [0, 1]
ReportSizes == {1, 2}
Shares == {0, 667, 1000}
Configs == [REPORT_SIZE : ReportSizes, ACCEPTABLE_PARSED_SHARE : Shares]

\* ------------------------------------------------------------ initial states

Pristine ==
    /\ status = "running"
    /\ report_written = "no"
    /\ log_file = NotCalled
    /\ url_times = <<>>
    /\ record_count = 0
    /\ record_processed = 0
    /\ records_processed = 0
    /\ records_parsed = 0
    /\ records_parsed_share = 0
    /\ top_url_times = <<>>
    /\ table = <<>>

\* main() is entered with LOG_DIR holding at most one file and REPORT_DIR
\* holding either no report or the reports of 2017.06.30 and 2022.01.12
Init ==
    /\ pc = "main"
    /\ files \in {<<>>} \cup {<<f>> : f \in FileNames}
    /\ reports \in {{}, {ParseDate(Tok20170630), ParseDate(Tok20220112)}}
    /\ working_config \in Configs
    /\ Pristine

\* get_latest_log is called directly on a directory that files enter and leave
InitLocator ==
    /\ pc = "idle"
    /\ files = <<>>
    /\ reports = {}
    /\ working_config = config
    /\ Pristine

\* ------------------------------------------------------------ the directory

pipeline == <<status, reports, report_written, working_config, url_times,
              record_count, record_processed, records_processed, records_parsed,
              records_parsed_share, top_url_times, table>>

InList(listing, f) == \E i \in 1..Len(listing) : listing[i] = f
InsertAt(listing, k, f) == SubSeq(listing, 1, k) \o <<f>> \o SubSeq(listing, k + 1, Len(listing))
RemoveAt(listing, k) == SubSeq(listing, 1, k - 1) \o SubSeq(listing, k + 1, Len(listing))

\* a file appears in LOG_DIR, anywhere in the listing
CreateFile ==
    /\ pc = "idle"
    /\ Len(files) < MaxFiles
    /\ \E f \in FileNames, k \in 0..Len(files) :
          /\ ~InList(files, f)
          /\ files' = InsertAt(files, k, f)
    /\ log_file' = NotCalled
    /\ UNCHANGED <<pc, pipeline>>

\* a file of LOG_DIR is removed
RemoveFile ==
    /\ pc = "idle"
    /\ \E k \in 1..Len(files) : files' = RemoveAt(files, k)
    /\ log_file' = NotCalled
    /\ UNCHANGED <<pc, pipeline>>

\* log_file = get_latest_log(TMPDIR, log_file_pattern)
CallGetLatestLog ==
    /\ pc = "idle"
    /\ log_file = NotCalled
    /\ log_file' = get_latest_log(files)
    /\ UNCHANGED <<pc, files, pipeline>>

NextLocator == CreateFile \/ RemoveFile \/ CallGetLatestLog

SpecLocator == InitLocator /\ [][NextLocator]_vars

\* ------------------------------------------------------------ main()

\* 'Finding the latest log to parse': None ends the run with sys.exit(0), a
\* ValueError of strptime is not caught
FindLatestLog ==
    /\ pc = "main" /\ status = "running"
    /\ log_file' = get_latest_log(files)
    /\ IF log_file'.kind = "ValueError" THEN status' = "ValueError" /\ pc' = pc
       ELSE IF log_file'.kind = "None" THEN status' = "SystemExit0" /\ pc' = pc
       ELSE status' = status /\ pc' = "report_check"
    /\ UNCHANGED <<files, reports, report_written, working_config, url_times,
                   record_count, record_processed, records_processed, records_parsed,
                   records_parsed_share, top_url_times, table>>

\* the check without its sys.exit(0)
CheckReportNoExit ==
    /\ pc = "report_check" /\ status = "running"
    /\ pc' = "parsing"
    /\ UNCHANGED <<status, files, reports, report_written, working_config, log_file,
                   url_times, record_count, record_processed, records_processed,
                   records_parsed, records_parsed_share, top_url_times, table>>
\* 'Setting up future report file. If already exists - exit'
CheckReport ==
    /\ pc = "report_check" /\ status = "running"
    /\ IF log_file.date \in reports
       THEN status' = "SystemExit0" /\ pc' = pc
       ELSE status' = status /\ pc' = "parsing"
    /\ UNCHANGED <<files, reports, report_written, working_config, log_file,
                   url_times, record_count, record_processed, records_processed,
                   records_parsed, records_parsed_share, top_url_times, table>>

\* one turn of `for url, time in get_url_time_from_record(...)`: the generator
\* reads the next line of the file and main() appends what it yields
ParseLine ==
    /\ pc = "parsing" /\ status = "running"
    /\ record_count < MaxLines
    /\ \E line \in Lines :
          LET rec == ExtractRecord(line) IN
          /\ url_times' = AppendTime(url_times, rec.url, rec.time)
          /\ record_processed' = record_processed + (IF line.matched THEN 1 ELSE 0)
    /\ record_count' = record_count + 1
    /\ UNCHANGED <<pc, status, files, reports, report_written, working_config, log_file,
                   records_processed, records_parsed, records_parsed_share,
                   top_url_times, table>>

\* the file has no further line: the generator is exhausted, 'Finished parsing'
EndOfLog ==
    /\ pc = "parsing" /\ status = "running"
    /\ pc' = "quality_gate"
    /\ UNCHANGED <<status, files, reports, report_written, working_config, log_file,
                   url_times, record_count, record_processed, records_processed,
                   records_parsed, records_parsed_share, top_url_times, table>>

\* 'Finding the proportion of the successfully parsed records. Exit if
\* proportion is too small': the division raises when nothing was streamed
QualityGate ==
    /\ pc = "quality_gate" /\ status = "running"
    /\ records_processed' = SumOfLens(url_times)
    /\ url_times' = DeleteSentinel(url_times)
    /\ records_parsed' = SumOfLens(url_times')
    /\ IF records_processed' = 0
       THEN /\ status' = "ZeroDivisionError"
            /\ UNCHANGED <<pc, records_parsed_share>>
       ELSE /\ \E up \in BOOLEAN :
                 records_parsed_share' = RoundHalf(1000 * records_parsed', records_processed', up)
            /\ IF records_parsed_share' < working_config.ACCEPTABLE_PARSED_SHARE
               THEN status' = "SystemExit0" /\ pc' = pc
               ELSE status' = status /\ pc' = "crop"
    /\ UNCHANGED <<files, reports, report_written, working_config, log_file,
                   record_count, record_processed, top_url_times, table>>

\* 'Crop top REPORT_SIZE of urls' and 'Populating the resulting JSON': the
\* first row's time_perc divides by times_sum
PopulateTable ==
    /\ pc = "crop" /\ status = "running"
    /\ top_url_times' = CropTop(url_times, working_config.REPORT_SIZE)
    /\ LET times_sum == SumOfSums(top_url_times')
           times_count == SumOfLens(top_url_times')
       IN  IF top_url_times' # <<>> /\ times_sum = 0
           THEN status' = "ZeroDivisionError" /\ UNCHANGED <<pc, table>>
           ELSE /\ table' \in Tables(top_url_times', times_sum, times_count)
                /\ status' = status
                /\ pc' = "first_row"
    /\ UNCHANGED <<files, reports, report_written, working_config, log_file, url_times,
                   record_count, record_processed, records_processed, records_parsed,
                   records_parsed_share>>

\* first_row = next(iter(table))
FirstRow ==
    /\ pc = "first_row" /\ status = "running"
    /\ IF table = <<>>
       THEN status' = "StopIteration" /\ pc' = pc
       ELSE status' = status /\ pc' = "write"
    /\ UNCHANGED <<files, reports, report_written, working_config, log_file, url_times,
                   record_count, record_processed, records_processed, records_parsed,
                   records_parsed_share, top_url_times, table>>

\* 'Writing the report': open(report_file, 'w') creates the file or truncates it
WriteReport ==
    /\ pc = "write" /\ status = "running"
    /\ report_written' = IF log_file.date \in reports THEN "overwritten" ELSE "created"
    /\ reports' = reports \cup {log_file.date}
    /\ pc' = "done"
    /\ status' = "finished"
    /\ UNCHANGED <<files, working_config, log_file, url_times, record_count,
                   record_processed, records_processed, records_parsed,
                   records_parsed_share, top_url_times, table>>

Next ==
    \/ FindLatestLog
    \/ CheckReport
    \/ ParseLine
    \/ EndOfLog
    \/ QualityGate
    \/ PopulateTable
    \/ FirstRow
    \/ WriteReport

Spec == Init /\ [][Next]_vars

\* ------------------------------------------------------------ properties

Threshold == working_config.ACCEPTABLE_PARSED_SHARE
\* the quality gate ended the run with sys.exit(0)
GateAborted == pc = "quality_gate" /\ status = "SystemExit0"
\* the quality gate let the run continue
GatePassed == pc \in {"crop", "first_row", "write", "done"}
\* top_url_times has been computed
Ranked == pc \in {"first_row", "write", "done"} \/ (pc = "crop" /\ status # "running")

Range(s) == {s[i] : i \in 1..Len(s)}
\* the 8-digit token read as a number
TokNum(tok) ==
    tok[1] * 10000000 + tok[2] * 1000000 + tok[3] * 100000 + tok[4] * 10000
    + tok[5] * 1000 + tok[6] * 100 + tok[7] * 10 + tok[8]
\* the file name pattern, as the claims state it
NameHasPattern(f) == f.stem = "nginx-access-ui" /\ Len(f.tok) = 8 /\ f.ext \in {"", ".gz"}
PatternFiles == {f \in Range(files) : NameHasPattern(f)}
KeepPattern(listing) == SelectSeq(listing, NameHasPattern)
\* the k-th smallest element of v, by counting
OrderStat(v, k) ==
    CHOOSE x \in Range(v) :
        /\ Cardinality({i \in 1..Len(v) : v[i] < x}) < k
        /\ Cardinality({i \in 1..Len(v) : v[i] <= x}) >= k
\* twice the standard median of v
ExactMedian2(v) ==
    IF Len(v) % 2 = 1 THEN 2 * OrderStat(v, Len(v) \div 2 + 1)
    ELSE OrderStat(v, Len(v) \div 2) + OrderStat(v, Len(v) \div 2 + 1)
Abs(x) == IF x < 0 THEN -x ELSE x
Position(ut, url) == CHOOSE i \in 1..Len(ut) : ut[i].url = url
RECURSIVE SumField(_, _)
SumField(rows, field) == IF rows = <<>> THEN 0 ELSE rows[1][field] + SumField(Tail(rows), field)

C2_LatestAmongMatching ==
    log_file.kind # "NotCalled" =>
       /\ log_file = get_latest_log(KeepPattern(files))
       /\ log_file.kind = "LogFile" =>
             /\ log_file.file_path \in PatternFiles
             /\ log_file.date = ParseDate(log_file.file_path.tok)
             /\ \A f \in PatternFiles : TokNum(f.tok) <= TokNum(log_file.file_path.tok)

\* C2 witness: a file was returned from a listing that also holds a name
\* without the pattern whose date digits are later than the returned date
C2_ReturnedDespiteLaterDigits ==
    /\ log_file.kind = "LogFile"
    /\ \E f \in Range(files) :
          /\ ~NameHasPattern(f)
          /\ Len(f.tok) = 8
          /\ TokNum(f.tok) > TokNum(log_file.file_path.tok)

\* C3 (as stated): when every name with the pattern carries a valid date,
\* get_latest_log returns None if and only if no name has the pattern.
C3_NoneIffNoMatch ==
    (log_file.kind # "NotCalled" /\ \A f \in PatternFiles : DateValid(f.tok)) =>
       (log_file.kind = "None" <=> PatternFiles = {})

\* C4: a report is written only by a run that found a log file, found no report
\* for its date and passed the quality gate; a run that finds no log file, or
\* finds the report, or fails the gate ends with SystemExit(0) and writes no
\* report, and in the first two cases has streamed no line.
C4_GatesBeforeReport ==
    /\ report_written # "no" =>
          /\ pc = "done" /\ status = "finished"
          /\ log_file.kind = "LogFile"
          /\ report_written = "created"
          /\ records_processed > 0
          /\ records_parsed_share >= Threshold
    /\ log_file.kind = "None" =>
          status = "SystemExit0" /\ pc = "main" /\ report_written = "no" /\ record_count = 0
    /\ (log_file.kind = "LogFile" /\ log_file.date \in reports /\ report_written = "no") =>
          /\ pc = "report_check" /\ status \in {"running", "SystemExit0"}
          /\ record_count = 0
    /\ (pc = "report_check" /\ status # "running") =>
          status = "SystemExit0" /\ log_file.date \in reports
    /\ (pc \notin {"main", "report_check", "parsing"} /\ records_processed > 0
          /\ records_parsed_share < Threshold) =>
          status = "SystemExit0" /\ pc = "quality_gate" /\ report_written = "no"
    /\ status = "SystemExit0" => (report_written = "no" /\ table = <<>>)

\* C4 witness: a report was written
C4_ReportCreated == report_written = "created" /\ record_count > 0

\* C5: a run whose log file has no line ends at the quality gate with
\* SystemExit(0), not with an uncaught error.
C5_EmptyLogCleanStop ==
    (pc = "quality_gate" /\ status # "running" /\ record_count = 0) => status = "SystemExit0"

\* C6: the selected urls are min(REPORT_SIZE, number of urls) entries of the
\* table, in descending order of the sum of their times, equal sums in
\* first-seen order; no url left out has a greater sum than a selected one, and
\* one left out with an equal sum was first seen later.
C6_TopSelection ==
    Ranked =>
       LET n == Len(top_url_times)
           left == {e \in Range(url_times) : e \notin Range(top_url_times)}
       IN  /\ n = Min(working_config.REPORT_SIZE, Len(url_times))
           /\ \A i \in 1..n : top_url_times[i] \in Range(url_times)
           /\ \A i, j \in 1..n : i < j =>
                 /\ top_url_times[i].url # top_url_times[j].url
                 /\ SumSeq(top_url_times[i].times) >= SumSeq(top_url_times[j].times)
                 /\ SumSeq(top_url_times[i].times) = SumSeq(top_url_times[j].times) =>
                       Position(url_times, top_url_times[i].url)
                          < Position(url_times, top_url_times[j].url)
           /\ \A e \in left : \A i \in 1..n :
                 /\ SumSeq(e.times) <= SumSeq(top_url_times[i].times)
                 /\ SumSeq(e.times) = SumSeq(top_url_times[i].times) =>
                       Position(url_times, top_url_times[i].url) < Position(url_times, e.url)

\* C6 witness: the cut fell inside a tie, with two urls selected
C6_CutInsideTie ==
    /\ Ranked
    /\ Len(top_url_times) = 2
    /\ \E e \in Range(url_times) :
          /\ e \notin Range(top_url_times)
          /\ SumSeq(e.times) = SumSeq(top_url_times[2].times)

\* what C7 says of count, time_sum, time_avg and time_max of row r over the times v
RowBasics(r, v) ==
    /\ r.count = Len(v)
    /\ r.time_sum = SumSeq(v)
    /\ 2 * Abs(r.time_avg * Len(v) - SumSeq(v)) <= Len(v)
    /\ r.time_max \in Range(v)
    /\ \A x \in Range(v) : x <= r.time_max

\* C7 (as stated): every row has the count, the sum, the mean rounded to 3
\* decimals and the maximum of its url's times, and time_med is their exact
\* median, not rounded.
C7_MedianExact ==
    \A i \in 1..Len(table) :
       LET v == TimesOf(url_times, table[i].url) IN
       RowBasics(table[i], v) /\ 2 * table[i].time_med = ExactMedian2(v)

\* C7 (amended): as stated, except that time_med is the median rounded to 3
\* decimals: it differs from the exact median by at most 0.0005.
C7_MedianRounded ==
    \A i \in 1..Len(table) :
       LET v == TimesOf(url_times, table[i].url) IN
       RowBasics(table[i], v) /\ Abs(2 * table[i].time_med - ExactMedian2(v)) <= 1

\* C7 witness: a row of an even number of times whose median has a fourth decimal
C7_RowWithHalfMedian ==
    \E i \in 1..Len(table) :
       LET v == TimesOf(url_times, table[i].url) IN
       Len(v) % 2 = 0 /\ ExactMedian2(v) % 2 = 1

\* C8: after the aggregation pass the table holds one entry per streamed line,
\* the key "-" holds exactly the entries of the lines that did not match, and
\* the parsed count of the quality gate is the number of lines that matched.
C8_SentinelHoldsUnmatched ==
    /\ (pc = "quality_gate" /\ status = "running") =>
          /\ SumOfLens(url_times) = record_count
          /\ Len(TimesOf(url_times, "-")) = record_count - record_processed
    /\ (GateAborted \/ GatePassed) =>
          /\ records_processed = record_count
          /\ records_parsed = record_processed

\* C9: a run that passed the gate with a non-empty selection builds one row per
\* selected url; the counts add up to the records of the selected urls, every
\* time_perc and count_perc is the url's share of the selection's sums rounded
\* to 3 decimals, and each column of shares adds up to 1 within 0.0005 per row.
C9_SharesOverSelection ==
    (Ranked /\ top_url_times # <<>>) =>
       LET times_sum == SumOfSums(top_url_times)
           times_count == SumOfLens(top_url_times)
       IN  /\ status # "ZeroDivisionError"
           /\ Len(table) = Len(top_url_times)
           /\ SumField(table, "count") = times_count
           /\ \A i \in 1..Len(table) :
                 /\ table[i].url = top_url_times[i].url
                 /\ 2 * Abs(table[i].time_perc * times_sum
                            - 1000 * SumSeq(top_url_times[i].times)) <= times_sum
                 /\ 2 * Abs(table[i].count_perc * times_count
                            - 1000 * Len(top_url_times[i].times)) <= times_count
           /\ 2 * Abs(SumField(table, "time_perc") - 1000) <= Len(table)
           /\ 2 * Abs(SumField(table, "count_perc") - 1000) <= Len(table)

\* C10: once the quality gate has let a run continue, the selection is not
\* empty: the first row is never read from an empty table.
C10_SelectionNonEmpty ==
    /\ Ranked => top_url_times # <<>>
    /\ status # "StopIteration"

====
